---- MODULE Spec2Model ----
(***************************************************************************)
(* Plugin lifecycle of ioBroker/plugins-base: the plugin base class        *)
(* (lib/PluginBase.js, callback API), the callback plugin handler and the  *)
(* promise plugin handler, over an opaque objects/states store.            *)
(*                                                                         *)
(* Plugin names are the numbers 1..NumPlugins; a new name is always the    *)
(* lowest unused number, so Object.keys(this.plugins) is the ascending     *)
(* order of the registered names.                                          *)
(***************************************************************************)
EXTENDS Integers, Sequences, FiniteSets, TLC

\* ----------------------------------------------------------------- bounds
NumPlugins == 2        \* plugin names the host may register
MaxInitCalls == 1      \* calls of initPlugins in one run
MaxLateAdds == 1       \* calls of addPlugins after initPlugins was called
MaxRestarts == 1       \* restarts of the host process over the same store

Names == 1..NumPlugins

\* ----------------------------------------------------------------- values
\* A plugin configuration blob: falsy ("missing"), or an object whose
\* enabled field is undefined, false or true.
Configs == {"missing", "undef", "false", "true"}
InputConfigs == {"missing", "undef", "false"}

\* What loading a plugin module does: it loads and constructs, require.resolve
\* finds nothing, require throws, or the constructor throws.
Loads == {"ok", "noresolve", "norequire", "ctorthrow"}

\* state.val of a persisted state, "absent" when the store holds no state.
Vals == {"absent", "true", "false", "object", "undefined", "string", "zero"}

\* What the init hook of a plugin does when it is invoked.
Hooks == {"ok", "fail", "throw", "async"}

PluginNamespace(k) == <<"plugin", k>>

\* Ids of the objects DB: the plugin's folder object (the namespace itself) and
\* the object of its enabled state
FolderId(k) == <<"folder", k>>
EnabledId(k) == <<"enabled", k>>
ObjectIds == {FolderId(k) : k \in Names} \cup {EnabledId(k) : k \in Names}
External == <<"external", 0>>
NoState == [val |-> "absent", ack |-> FALSE, from |-> External]

VARIABLES
    version,       \* which handler drives the plugins: "callback" or "promise"
    scope,         \* settings.scope of the handler: "adapter" or "controller"
    parentConfig,  \* io-package of the parent: common.host set, name matching
    faults,        \* whether reads of the states DB may fail in this run
    plugins,       \* this.plugins of the handler: name -> slot
    inst,          \* the plugin instances callbacks or slots refer to
    states,        \* the states DB: namespace -> state of <namespace>.enabled
    objects,       \* the objects DB: object id -> type of the object stored
    call,          \* the last initPlugins call: counter, cursor and completion,
                   \* and how often the host process was restarted before it
    derive,        \* a derivation of the host namespace: its inputs and result
    ret            \* the last operation the host called and what it returned
                   \* (hook: what the plugin's destroy() returned, or the
                   \* argument of setActive)

vars ==
    <<version, scope, parentConfig, faults, plugins, inst, states, objects, call,
      derive, ret>>

\* The instances of a name: "cur" is the one constructed for the slot object
\* that is this.plugins[name] now, "old" one constructed for a slot object that a
\* later registration replaced and that an initPlugin still in progress holds.
Gens == {"cur", "old"}

\* A slot of this.plugins: whether the name is a key of this.plugins, the config
\* of the slot object, and its instance: "none" (null or deleted) or "cur".
NoSlot == [registered |-> FALSE, config |-> "missing", instance |-> "none"]

\* A constructed PluginBase object. pc is where its initPlugin chain waits; the
\* other fields past isActive record what the last initPlugin read and decided.
\* A constructor that leaves isActive true
NewInstanceActive ==
    [pc |-> "idle", bound |-> FALSE, isActive |-> TRUE, tried |-> 0,
     cfg |-> "missing", ownRead |-> "none", hostRead |-> "none",
     activate |-> "none", result |-> "none", evicted |-> "no"]

NewInstance ==
    [pc |-> "idle", bound |-> FALSE, isActive |-> FALSE, tried |-> 0,
     cfg |-> "missing", ownRead |-> "none", hostRead |-> "none",
     activate |-> "none", result |-> "none", evicted |-> "no"]

NoInstance == [NewInstance EXCEPT !.pc = "none"]

Pending == {"extFolder", "extState", "getState", "getHost", "hook"}

NoCall ==
    [n |-> 0, active |-> FALSE, cnt |-> 0, cur |-> 0, signals |-> 0,
     early |-> FALSE, raised |-> FALSE, pre |-> FALSE, late |-> 0, boot |-> 0,
     snap |-> [k \in Names |-> "unreg"]]

NoRet == [op |-> "none", names |-> {}, force |-> FALSE, hook |-> FALSE, val |-> "void"]

\* The mutable state the handlers and the plugin objects work on, with exc set
\* when an exception is propagating out of the code run so far.
World ==
    [plugins |-> plugins, inst |-> inst, states |-> states, objects |-> objects,
     call |-> call, exc |-> FALSE, val |-> "void"]

\* A JavaScript boolean as the model writes it
Bool(b) == IF b THEN "true" ELSE "false"

Registered(w, k) == w.plugins[k].registered

IsLive(w, k) == w.plugins[k].instance # "none"

\* ------------------------------------------------------- lib/PluginBase.js

\* PluginBase.getState: throws before the states DB is set, else the states DB
\* reads; val is the value it hands to the callback.
GetState(w, k, g, id) ==
    IF ~w.inst[k][g].bound
    THEN [w EXCEPT !.exc = TRUE]
    ELSE [w EXCEPT !.val = w.states[id].val]

\* PluginBase.getObject
GetObject(w, k, g, id) ==
    IF ~w.inst[k][g].bound
    THEN [w EXCEPT !.exc = TRUE]
    ELSE [w EXCEPT !.val = w.objects[id]]

\* setObject without the test of the objects DB
SetObjectUnchecked(w, k, g, id, type) == [w EXCEPT !.objects[id] = type]

\* PluginBase.setObject
SetObject(w, k, g, id, type) ==
    IF ~w.inst[k][g].bound
    THEN [w EXCEPT !.exc = TRUE]
    ELSE [w EXCEPT !.objects[id] = type]

\* extendObject that also stores a default value for the state
ExtendObjectWithDefault(w, k, g, id, type) ==
    IF ~w.inst[k][g].bound
    THEN [w EXCEPT !.exc = TRUE]
    ELSE [w EXCEPT !.objects[id] = type,
                   !.states[<<"plugin", k>>] =
                       [val |-> "false", ack |-> TRUE, from |-> <<"plugin", k>>]]

\* PluginBase.extendObject
ExtendObject(w, k, g, id, type) ==
    IF ~w.inst[k][g].bound
    THEN [w EXCEPT !.exc = TRUE]
    ELSE [w EXCEPT !.objects[id] = type]

\* PluginBase.setState: throws before the states DB is set, else writes.
SetState(w, k, g, id, state) ==
    IF ~w.inst[k][g].bound
    THEN [w EXCEPT !.exc = TRUE]
    ELSE [w EXCEPT !.states[id] = state]

EnabledState(k, active) ==
    [val |-> IF active THEN "true" ELSE "false", ack |-> TRUE,
     from |-> PluginNamespace(k)]

\* setActive without the setState
SetActiveUnpersisted(w, k, g, active) == [w EXCEPT !.inst[k][g].isActive = active]

\* PluginBase.setActive
SetActive(w, k, g, active) ==
    SetState([w EXCEPT !.inst[k][g].isActive = active], k, g,
             PluginNamespace(k), EnabledState(k, active))

\* PluginBase.setDatabase
SetDatabase(w, k, g) == [w EXCEPT !.inst[k][g].bound = TRUE]

\* A usable own flag taken for true whatever it is
TruthyAlways(val) == TRUE

\* !!state.val of a usable own flag
Truthy(val) == val \in {"true", "string"}

\* The test without its err operand
OwnUnusableNoError(read) == read \in {"absent", "object", "undefined"}

\* The test with a stored false taken for "not set"
OwnUnusableOrFalse(read) ==
    read \in {"error", "absent", "object", "undefined", "false"}

\* The getState callback's test for "no enabled flag is set"
OwnUnusable(read) == read \in {"error", "absent", "object", "undefined"}

\* The host getState callback's test for "no host enabled flag is set"
HostUnusable(read) == read \notin {"true", "false"}

\* !!pluginConfig.enabled alone
DefaultEnabledStrict(cfg) == cfg = "true"

\* pluginConfig.enabled === undefined ? true : !!pluginConfig.enabled
DefaultEnabled(cfg) == cfg \in {"undef", "true"}

\* The test without its scope operand
UseHostAnyScope == parentConfig.host

\* The scope and parent configuration under which the host flag is consulted
UseHost == scope = "adapter" /\ parentConfig.host

\* pluginNamespace.replace(new RegExp(...), 'system.host.' + host + '.'): the
\* host namespace where the pattern matches, the unchanged string where not.
HostNamespace(k) ==
    IF parentConfig.match THEN <<"host", k>> ELSE PluginNamespace(k)

\* pluginConfig.enabled = activate, on the config object initPlugin was given:
\* the slot's config for as long as the slot object is the instance's. The
\* instance's cfg keeps the value the call was entered with.
InjectEnabled(w, k, g) ==
    IF g = "cur" THEN [w EXCEPT !.plugins[k].config = "true"] ELSE w

\* ------------------------------------------- the host namespace, as strings

\* A string is the sequence of its characters
SystemAdapter ==
    <<"s", "y", "s", "t", "e", "m", ".", "a", "d", "a", "p", "t", "e", "r", ".">>
SystemHost == <<"s", "y", "s", "t", "e", "m", ".", "h", "o", "s", "t", ".">>
PluginsTail == <<"p", "l", "u", "g", "i", "n", "s", ".", "x">>
Digits == {"0", "1", "2", "3", "4", "5", "6", "7", "8", "9"}

\* Adapter names, instance numbers and host names the derivation is tried on
AdapterNames ==
    {<<"a", "b">>, <<"a", "b", "1">>, <<"a", "b", "1", "2">>,
     <<"a", "b", "-", "7">>, <<"x", "a", "b">>, <<"b">>}
ParentNames == {<<"a", "b">>, <<"a", "b", "1">>, <<"b">>}
InstanceNumbers == {<<"0">>, <<"1", "2">>}
HostNames == {<<"h">>, <<"h", "2">>}

\* pluginNamespace of a plugin of an adapter instance
AdapterNamespace(adapter, instance) ==
    SystemAdapter \o adapter \o <<".">> \o instance \o <<".">> \o PluginsTail

\* What new RegExp makes of a pattern source without brackets: the '\.' of the
\* string literals is the character '.', which in the pattern matches any
\* character; every other character of these sources matches itself.
Compile(src) ==
    [i \in 1..Len(src) |->
        IF src[i] = "." THEN [t |-> "any", c |-> "."] ELSE [t |-> "lit", c |-> src[i]]]

\* new RegExp('system\.adapter\.' + parentConfig.common.name + '\.[0-9]+\.')
HostPattern(name) ==
    Compile(SystemAdapter \o name)
        \o <<[t |-> "any", c |-> "."], [t |-> "digits", c |-> "0"],
             [t |-> "any", c |-> "."]>>

\* The positions after a match of pat from its j-th token on that starts at
\* position i of str
RECURSIVE MatchEnds(_, _, _, _)
MatchEnds(str, i, pat, j) ==
    IF j > Len(pat) THEN {i}
    ELSE IF i > Len(str) THEN {}
    ELSE CASE pat[j].t = "lit" ->
                  IF str[i] = pat[j].c THEN MatchEnds(str, i + 1, pat, j + 1) ELSE {}
           [] pat[j].t = "any" -> MatchEnds(str, i + 1, pat, j + 1)
           [] OTHER ->
                  UNION {MatchEnds(str, i + d, pat, j + 1) :
                            d \in {n \in 1..(Len(str) - i + 1) :
                                      \A x \in i..(i + n - 1) : str[x] \in Digits}}

\* String.prototype.replace with a pattern that is not global: the leftmost
\* match is replaced, [0-9]+ taking as many digits as lets the rest match, and a
\* string without match is returned as it is.
ReplaceFirst(str, pat, by) ==
    LET starts == {i \in 1..Len(str) : MatchEnds(str, i, pat, 1) # {}}
    IN IF starts = {} THEN str
       ELSE LET i == CHOOSE a \in starts : \A b \in starts : a <= b
                ends == MatchEnds(str, i, pat, 1)
                e == CHOOSE a \in ends : \A b \in ends : b <= a
            IN SubSeq(str, 1, i - 1) \o by \o SubSeq(str, e, Len(str))

\* hostNamespace of initPlugin
DeriveHostNamespace(ns, name, host) ==
    ReplaceFirst(ns, HostPattern(name), SystemHost \o host \o <<".">>)

NoDerive ==
    [adapter |-> <<>>, instance |-> <<>>, name |-> <<>>, host |-> <<>>,
     out |-> <<>>, done |-> FALSE]

\* ---------------------------------------------------- handler: completion

\* The slot object initPlugins found under the name when it was called is still
\* this.plugins[name] and still holds the instance it held then. call.snap[k] is
\* "unreg" for a name that was no key then, "live" for a slot object that held an
\* instance then and has not been replaced, "dead" for the others.
SnapLive(w, k) == w.call.snap[k] = "live" /\ IsLive(w, k)

\* Slots that held a live instance when initPlugins was called, still hold it,
\* and whose initialization is not settled: never attempted or still pending.
Unsettled(w) ==
    {k \in Names :
        /\ SnapLive(w, k)
        /\ w.inst[k]["cur"].tried # w.call.n \/ w.inst[k]["cur"].pc \in Pending}

\* callback() of the callback handler, the return of the promise handler
Signal(w) ==
    [w EXCEPT !.call.signals = @ + 1,
              !.call.early = @ \/ Unsettled(w) # {}]

\* instance.destroy(); delete this.plugins[name].instance
Evict(w, k, by) ==
    LET g == w.plugins[k].instance
    IN IF g = "none" THEN w
       ELSE [w EXCEPT !.plugins[k].instance = "none", !.inst[k][g].evicted = by]

\* --------------------------------------- callback handler: initPlugins

\* !--callbackCnt && callback()
CountDown(w) ==
    LET w1 == [w EXCEPT !.call.cnt = @ - 1]
    IN IF w1.call.cnt = 0 THEN Signal(w1) ELSE w1

\* The callback without its discard branch
InitCallbackKeep(w, k, failed) == CountDown(w)

\* The (err, initSuccessful) callback the handler hands to instance.initPlugin:
\* on a failure it dereferences this.plugins[plugin].instance, which throws when
\* the slot has been emptied since.
InitCallback(w, k, failed) ==
    IF failed
    THEN IF IsLive(w, k) THEN CountDown(Evict(w, k, "init"))
         ELSE [w EXCEPT !.exc = TRUE]
    ELSE CountDown(w)

\* instance.initPlugin is entered: what the instance remembers of the call
Enter(w, k, g) ==
    [w EXCEPT !.inst[k][g] =
        [@ EXCEPT !.tried = w.call.n, !.cfg = w.plugins[k].config,
                  !.ownRead = "none", !.hostRead = "none",
                  !.activate = "none", !.result = "none"]]

\* The forEach of initPlugins from the c-th key on, then the test after it.
\* A missing configuration calls back at once; an unbound instance throws out
\* of extendObject and so out of initPlugins.
RECURSIVE Dispatch(_, _)
Dispatch(w, c) ==
    IF c > NumPlugins
    THEN IF w.call.cnt = 0 THEN Signal(w) ELSE w
    ELSE IF ~IsLive(w, c)
    THEN Dispatch(w, c + 1)
    ELSE LET g == w.plugins[c].instance
             w1 == Enter([w EXCEPT !.call.cnt = @ + 1], c, g)
         IN IF w1.plugins[c].config = "missing"
            THEN Dispatch(InitCallback([w1 EXCEPT !.inst[c][g].result = "nocfg"],
                                       c, TRUE), c + 1)
            ELSE IF ~w1.inst[c][g].bound
            THEN [w1 EXCEPT !.exc = TRUE, !.inst[c][g].result = "unbound"]
            ELSE Dispatch([ExtendObject(w1, c, g, FolderId(c), "folder")
                              EXCEPT !.inst[c][g].pc = "extFolder"], c + 1)

\* ---------------------------------------- promise handler: initPlugins

\* The outcomes on which the promise of instance.initPlugin rejects: a failed
\* or throwing init hook, a missing configuration, a store that is not set. The
\* promise PluginBase is declared only (its code is not among the sources), so
\* this and HookRejects follow the specification.
Rejects(outcome) == outcome \in {"fail", "throw", "nocfg", "unbound"}

\* The try/catch of the handler's initPlugin around the awaited promise: a
\* rejection destroys the instance and deletes it from the slot.
Caught(w, k, outcome) == IF Rejects(outcome) THEN Evict(w, k, "init") ELSE w

\* initPlugins has returned
Complete(w) == Signal([w EXCEPT !.call.active = FALSE, !.call.cur = 0])

\* The for...of of initPlugins from the c-th entry on, up to the next await
\* that waits for the store: an entry without instance returns, a rejected
\* instance.initPlugin is caught by initPlugin, which empties the slot.
RECURSIVE Advance(_, _)
Advance(w, c) ==
    IF c > NumPlugins
    THEN Complete(w)
    ELSE IF w.call.snap[c] = "unreg"
    THEN Complete(w)
    ELSE IF ~SnapLive(w, c)
    THEN Complete(w)
    ELSE LET g == w.plugins[c].instance
             w1 == Enter(w, c, g)
         IN IF w1.plugins[c].config = "missing"
            THEN Advance(Caught([w1 EXCEPT !.inst[c][g].result = "nocfg"],
                                c, "nocfg"), c + 1)
            ELSE IF ~w1.inst[c][g].bound
            THEN Advance(Caught([w1 EXCEPT !.inst[c][g].result = "unbound"],
                                c, "unbound"), c + 1)
            ELSE [ExtendObject(w1, c, g, FolderId(c), "folder")
                     EXCEPT !.inst[c][g].pc = "extFolder", !.call.cur = c]

\* The awaited promise of instance.initPlugin settles: the catch block on a
\* rejection, then the loop of initPlugins goes on.
Settle(w, k, outcome) == Advance(Caught(w, k, outcome), k + 1)

\* ------------------------------------------- PluginBase: initialization

\* The outcome of initPlugin reaches the handler: the callback of the callback
\* handler, the awaited promise of the promise handler (not activated resolves).
Report(w, k, outcome) ==
    IF version = "callback"
    THEN InitCallback(w, k, outcome # "ok")
    ELSE Settle(w, k, outcome)

\* The callback _initialize hands to init: setActive, then callback(err, success)
HookDone(w, k, g, outcome) ==
    LET w1 == SetActive([w EXCEPT !.inst[k][g].pc = "idle",
                                  !.inst[k][g].result = outcome],
                        k, g, outcome = "ok")
    IN IF w1.exc THEN w1 ELSE Report(w1, k, outcome)

\* A throw of the init hook under the promise API: the instance is set
\* inactive and the promise of initPlugin rejects.
HookRejects(w, k, g) == HookDone(w, k, g, "throw")

\* A throw of the init hook: nothing catches it in _initialize, so it leaves
\* through the store's callback with neither setActive nor callback called.
HookThrows(w, k, g) ==
    IF version = "callback"
    THEN [w EXCEPT !.inst[k][g].pc = "idle", !.inst[k][g].result = "throw",
                   !.exc = TRUE]
    ELSE HookRejects(w, k, g)

\* _initialize that invokes the init hook whatever activate is
InitializeAlways(w, k, g, activate, hook) ==
    LET w1 == [w EXCEPT !.inst[k][g].activate = Bool(activate)]
    IN CASE hook = "async" -> [w1 EXCEPT !.inst[k][g].pc = "hook"]
         [] hook = "throw" -> HookThrows(w1, k, g)
         [] OTHER -> HookDone(w1, k, g, hook)

\* PluginBase._initialize, with what the init hook does when it is invoked
Initialize(w, k, g, activate, hook) ==
    IF activate
    THEN LET w1 == InjectEnabled([w EXCEPT !.inst[k][g].activate = "true"], k, g)
         IN CASE hook = "async" -> [w1 EXCEPT !.inst[k][g].pc = "hook"]
              [] hook = "throw" -> HookThrows(w1, k, g)
              [] OTHER -> HookDone(w1, k, g, hook)
    ELSE LET w1 == SetActive([w EXCEPT !.inst[k][g].activate = "false",
                                       !.inst[k][g].pc = "idle",
                                       !.inst[k][g].result = "off"],
                             k, g, FALSE)
         IN IF w1.exc THEN w1 ELSE Report(w1, k, "off")

\* The getState callback of initPlugin on the plugin's own enabled state
OwnStateRead(w, k, g, read, hook) ==
    LET w1 == [w EXCEPT !.inst[k][g].ownRead = read]
    IN IF OwnUnusable(read)
       THEN IF UseHost
            THEN [w1 EXCEPT !.inst[k][g].pc = "getHost"]
            ELSE Initialize(w1, k, g, DefaultEnabled(w1.inst[k][g].cfg), hook)
       ELSE Initialize(w1, k, g, Truthy(read), hook)

\* The getState callback of initPlugin on the host's enabled state
HostStateRead(w, k, g, read, hook) ==
    LET w1 == [w EXCEPT !.inst[k][g].hostRead = read]
    IN IF HostUnusable(read)
       THEN Initialize(w1, k, g, DefaultEnabled(w1.inst[k][g].cfg), hook)
       ELSE Initialize(w1, k, g, read = "true", hook)

\* ------------------------------------------------- handler: registration

\* The callback handler ignores every name that is a key of this.plugins
AddPluginsDuplicate(w, k) == Registered(w, k)

\* No duplicate test at all
InstantiateAlways(w, k) == FALSE

\* The promise handler ignores a name whose slot holds an instance
InstantiateDuplicate(w, k) == IsLive(w, k)

Duplicate(w, k) ==
    IF version = "callback" THEN AddPluginsDuplicate(w, k)
    ELSE InstantiateDuplicate(w, k)

\* A new slot object takes the place of this.plugins[name]: the instance of the
\* old one stays known only while its initPlugin is in progress, and the entries
\* of an initPlugins in progress keep the old slot object.
Replace(w, k) ==
    [w EXCEPT !.inst[k] =
                  [g \in Gens |->
                      IF g = "old" /\ @["cur"].pc \in Pending THEN @["cur"]
                      ELSE IF g = "old" /\ @["old"].pc \in Pending THEN @["old"]
                      ELSE NoInstance],
              !.call.snap[k] = IF @ = "live" THEN "dead" ELSE @]

\* One pass of the forEach of addPlugins / instantiatePlugin: require.resolve
\* throws for a module it cannot find, a failing require is logged and skipped,
\* and the slot is created before the constructor runs.
Instantiate(w, k, config, load) ==
    IF Duplicate(w, k) THEN w
    ELSE IF load = "noresolve" THEN [w EXCEPT !.exc = TRUE]
    ELSE IF load = "norequire" THEN w
    ELSE [Replace(w, k) EXCEPT
             !.plugins[k] = [registered |-> TRUE, config |-> config,
                             instance |-> IF load = "ok" THEN "cur" ELSE "none"],
             !.inst[k]["cur"] = IF load = "ok" THEN NewInstance ELSE NoInstance]

\* addPlugins(configs): configs gives every name of batch.names the config
\* batch.config; the module of batch.bad loads as batch.load, the others load.
LoadOf(batch, k) == IF k = batch.bad THEN batch.load ELSE "ok"

RECURSIVE AddPlugins(_, _, _)
AddPlugins(w, batch, k) ==
    IF k > NumPlugins \/ w.exc THEN w
    ELSE IF k \notin batch.names THEN AddPlugins(w, batch, k + 1)
    ELSE AddPlugins(Instantiate(w, k, batch.config, LoadOf(batch, k)), batch, k + 1)

\* The batches the model draws: a new name is the lowest unused one
RECURSIVE ValidBatch(_, _, _)
ValidBatch(w, batch, k) ==
    IF k > NumPlugins \/ w.exc THEN TRUE
    ELSE IF k \notin batch.names THEN ValidBatch(w, batch, k + 1)
    ELSE IF ~Registered(w, k) /\ ~(\A j \in 1..(k - 1) : Registered(w, j))
    THEN FALSE
    ELSE ValidBatch(Instantiate(w, k, batch.config, LoadOf(batch, k)), batch, k + 1)

Batches ==
    {b \in [names : SUBSET Names \ {{}}, config : InputConfigs,
            bad : Names \cup {0}, load : Loads] :
        /\ b.bad = 0 => b.load = "ok"
        /\ b.bad # 0 => b.bad \in b.names /\ b.load # "ok"}

\* setDatabaseForPlugins: every slot with an instance is bound
RECURSIVE SetDatabaseForPlugins(_, _)
SetDatabaseForPlugins(w, k) ==
    IF k > NumPlugins THEN w
    ELSE SetDatabaseForPlugins(
             IF IsLive(w, k) THEN SetDatabase(w, k, w.plugins[k].instance) ELSE w,
             k + 1)

\* ---------------------------------------------------- handler: destroy

\* destroy(name, force) that takes the plugin's destroy() alone into account
DestroyOneUnforced(w, k, force, hook) ==
    IF ~Registered(w, k) THEN [w EXCEPT !.exc = TRUE]
    ELSE IF ~IsLive(w, k) THEN [w EXCEPT !.val = "true"]
    ELSE IF hook
    THEN LET g == w.plugins[k].instance
             w1 == IF force THEN w ELSE SetActive(w, k, g, FALSE)
         IN IF w1.exc THEN w1
            ELSE [Evict(w1, k, "destroy") EXCEPT !.val = "true"]
    ELSE [w EXCEPT !.val = "false"]

\* destroy(name, force) with setActive(false) called before the plugin's
\* destroy() is asked
DestroyOneEager(w, k, force, hook) ==
    IF ~Registered(w, k) THEN [w EXCEPT !.exc = TRUE]
    ELSE IF ~IsLive(w, k) THEN [w EXCEPT !.val = "true"]
    ELSE LET g == w.plugins[k].instance
             w1 == IF force THEN w ELSE SetActive(w, k, g, FALSE)
         IN IF w1.exc THEN w1
            ELSE IF hook \/ force
            THEN [Evict(w1, k, "destroy") EXCEPT !.val = "true"]
            ELSE [w1 EXCEPT !.val = "false"]

\* destroy(name, force) of the promise handler; hook is what the plugin's
\* destroy() returns. this.plugins[name] of an unknown name throws.
DestroyOne(w, k, force, hook) ==
    IF ~Registered(w, k) THEN [w EXCEPT !.exc = TRUE]
    ELSE IF ~IsLive(w, k) THEN [w EXCEPT !.val = "true"]
    ELSE IF hook \/ force
    THEN LET g == w.plugins[k].instance
             w1 == IF force THEN w ELSE SetActive(w, k, g, FALSE)
         IN IF w1.exc THEN w1
            ELSE [Evict(w1, k, "destroy") EXCEPT !.val = "true"]
    ELSE [w EXCEPT !.val = "false"]

\* destroyAll that does not force
RECURSIVE DestroyAllUnforced(_, _, _)
DestroyAllUnforced(w, hooks, k) ==
    IF k > NumPlugins THEN [w EXCEPT !.val = "void"]
    ELSE DestroyAllUnforced(
             IF Registered(w, k) THEN DestroyOne(w, k, FALSE, hooks[k]) ELSE w,
             hooks, k + 1)

\* destroyAll of the promise handler: destroy(plugin, true) for every key;
\* hooks[k] is what the destroy() of the plugin k returns
RECURSIVE DestroyAllPlugins(_, _, _)
DestroyAllPlugins(w, hooks, k) ==
    IF k > NumPlugins THEN [w EXCEPT !.val = "void"]
    ELSE DestroyAllPlugins(
             IF Registered(w, k) THEN DestroyOne(w, k, TRUE, hooks[k]) ELSE w,
             hooks, k + 1)

\* destroy() of the callback handler: every instance is destroyed and deleted
RECURSIVE DestroyPlugins(_, _)
DestroyPlugins(w, k) ==
    IF k > NumPlugins THEN w
    ELSE DestroyPlugins(Evict(w, k, "destroy"), k + 1)

\* ----------------------------------------------------- handler: queries

\* The property names a query may be called with: a plugin name, or a name
\* every plain object inherits from Object.prototype ("constructor", ...).
Keys == [kind : {"name"}, k : Names] \cup {[kind |-> "inherited", k |-> 1]}

\* this.plugins[name]: the slot of a registered name, undefined for a name that
\* was not registered, the inherited property (an object without instance and
\* config) for an inherited name.
Lookup(w, key) ==
    IF key.kind = "inherited"
    THEN [defined |-> TRUE, instance |-> FALSE, config |-> FALSE, isActive |-> FALSE]
    ELSE IF ~Registered(w, key.k)
    THEN [defined |-> FALSE, instance |-> FALSE, config |-> FALSE, isActive |-> FALSE]
    ELSE [defined |-> TRUE,
          instance |-> IsLive(w, key.k),
          config |-> w.plugins[key.k].config # "missing",
          isActive |-> IsLive(w, key.k) /\ w.inst[key.k]["cur"].isActive]

\* The query accessors of the callback handler and of the promise handler
Queries ==
    IF version = "callback"
    THEN {"getPluginInstance", "getPluginConfig", "pluginExists",
          "isPluginInitialized"}
    ELSE {"getPluginInstance", "getPluginConfig", "pluginExists",
          "isPluginInstantiated", "isPluginActive"}

\* getPluginInstance, getPluginConfig, pluginExists, isPluginInitialized /
\* isPluginInstantiated, isPluginActive: val is what the accessor returns
Query(w, key, q) ==
    LET slot == Lookup(w, key)
    IN [w EXCEPT !.val =
           CASE q = "getPluginInstance" ->
                    IF ~slot.defined \/ ~slot.instance THEN "null" ELSE "instance"
             [] q = "getPluginConfig" ->
                    IF ~slot.defined \/ ~slot.config THEN "null" ELSE "config"
             [] q = "pluginExists" -> Bool(slot.defined)
             [] q \in {"isPluginInitialized", "isPluginInstantiated"} ->
                    Bool(slot.defined /\ slot.instance)
             [] OTHER -> Bool(slot.defined /\ slot.instance /\ slot.isActive)]

\* ------------------------------------------------------------- actions

NoChainPending == \A k \in Names, g \in Gens : inst[k][g].pc \notin Pending

\* The effect of a handler operation the host called. The call returns to the
\* host before any callback can run.
Returns(w, op, names, force, hook) ==
    /\ ret = NoRet
    /\ plugins' = w.plugins
    /\ inst' = w.inst
    /\ states' = w.states
    /\ objects' = w.objects
    /\ call' = w.call
    /\ ret' = [op |-> op, names |-> names, force |-> force, hook |-> hook,
               val |-> IF w.exc THEN "throw" ELSE w.val]
    /\ UNCHANGED <<version, scope, parentConfig, faults, derive>>

\* The effect of a callback the store or a plugin called; an exception of the
\* callback leaves through that caller.
CalledBack(w) ==
    /\ ret = NoRet
    /\ plugins' = w.plugins
    /\ inst' = w.inst
    /\ states' = w.states
    /\ objects' = w.objects
    /\ call' = [w.call EXCEPT !.raised = @ \/ w.exc]
    /\ ret' = NoRet
    /\ UNCHANGED <<version, scope, parentConfig, faults, derive>>

\* The host takes what the handler operation returned or threw
Return ==
    /\ ret # NoRet
    /\ ret' = NoRet
    /\ UNCHANGED <<version, scope, parentConfig, faults, plugins, inst, states,
                   objects, call, derive>>

AddPluginsCall ==
    \E b \in Batches :
        /\ call.n > 0 => call.late < MaxLateAdds
        /\ ValidBatch(World, b, 1)
        /\ Returns(AddPlugins([World EXCEPT !.call.late =
                                  IF call.n > 0 THEN @ + 1 ELSE @], b, 1),
                   "addPlugins", b.names, FALSE, FALSE)

SetDatabaseCall ==
    /\ \E k \in Names : IsLive(World, k)
    /\ Returns(SetDatabaseForPlugins(World, 1), "setDatabaseForPlugins", {}, FALSE, FALSE)

\* initPlugins(parentConfig[, callback])
InitPluginsCall ==
    /\ call.n < MaxInitCalls
    /\ ~call.active
    /\ NoChainPending
    /\ LET w == [World EXCEPT !.call =
                    [NoCall EXCEPT !.n = call.n + 1, !.late = call.late,
                                   !.boot = call.boot,
                                   !.active = (version = "promise"),
                                   !.pre = \A k \in Names : Registered(World, k) =>
                                       /\ IsLive(World, k)
                                       /\ inst[k][plugins[k].instance].bound,
                                   !.snap = [k \in Names |->
                                       IF ~Registered(World, k) THEN "unreg"
                                       ELSE IF IsLive(World, k) THEN "live"
                                       ELSE "dead"]]]
       IN Returns(IF version = "callback" THEN Dispatch(w, 1) ELSE Advance(w, 1),
                  "initPlugins", {}, FALSE, FALSE)

DestroyCall ==
    /\ version = "promise"
    /\ \E k \in Names, force \in BOOLEAN, hook \in BOOLEAN :
          /\ ~IsLive(World, k) => ~hook
          /\ Returns(DestroyOne(World, k, force, hook), "destroy", {k}, force, hook)

\* destroy() of the callback handler, destroyAll() of the promise handler; the
\* hook of the return is whether every destroy() that was called returned true
DestroyAllCall ==
    /\ \E k \in Names : Registered(World, k)
    /\ \E hooks \in [Names -> BOOLEAN] :
          /\ \A k \in Names : ~IsLive(World, k) => ~hooks[k]
          /\ Returns(IF version = "callback" THEN DestroyPlugins(World, 1)
                     ELSE DestroyAllPlugins(World, hooks, 1),
                     "destroyAll", {}, TRUE,
                     \A k \in Names : IsLive(World, k) => hooks[k])

\* The persistence accessors of PluginBase
Accessors == {"getState", "setState", "getObject", "setObject", "extendObject"}

\* A state a caller of setState hands over
CallerState == [val |-> "string", ack |-> FALSE, from |-> External]

Accessor(w, k, g, acc) ==
    CASE acc = "getState" -> GetState(w, k, g, PluginNamespace(k))
      [] acc = "setState" -> SetState(w, k, g, PluginNamespace(k), CallerState)
      [] acc = "getObject" -> GetObject(w, k, g, EnabledId(k))
      [] acc = "setObject" -> SetObject(w, k, g, EnabledId(k), "state")
      [] OTHER -> ExtendObject(w, k, g, EnabledId(k), "state")

\* The plugin or the host calls a persistence accessor of an instance
AccessorCall ==
    \E k \in Names, acc \in Accessors :
        /\ inst[k]["cur"].pc # "none"
        /\ Returns(Accessor(World, k, "cur", acc), acc, {k}, FALSE, FALSE)

\* instance.setActive(active) is called on an instance
SetActiveCall ==
    \E k \in Names, active \in BOOLEAN :
        /\ inst[k]["cur"].pc # "none"
        /\ Returns(SetActive(World, k, "cur", active), "setActive", {k}, FALSE, active)

\* The host calls a query accessor of the handler
QueryCall ==
    \E key \in Keys, q \in Queries :
        Returns(Query(World, key, q), q,
                IF key.kind = "name" THEN {key.k} ELSE {}, FALSE, FALSE)

\* The callback of extendObject on the plugin's folder
ExtendFolderCb ==
    \E k \in Names, g \in Gens :
        /\ inst[k][g].pc = "extFolder"
        /\ CalledBack([ExtendObject(World, k, g, EnabledId(k), "state")
                          EXCEPT !.inst[k][g].pc = "extState"])

\* The callback of extendObject on the enabled state object
ExtendStateCb ==
    \E k \in Names, g \in Gens :
        /\ inst[k][g].pc = "extState"
        /\ CalledBack([World EXCEPT !.inst[k][g].pc = "getState"])

\* What a getState of the store hands to its callback: an error or the value
Reads(id) == IF faults THEN {"error", states[id].val} ELSE {states[id].val}

GetStateCb ==
    \E k \in Names, g \in Gens :
        /\ inst[k][g].pc = "getState"
        /\ \E read \in Reads(PluginNamespace(k)), hook \in Hooks :
              CalledBack(OwnStateRead(World, k, g, read, hook))

GetHostStateCb ==
    \E k \in Names, g \in Gens :
        /\ inst[k][g].pc = "getHost"
        /\ \E read \in Reads(HostNamespace(k)), hook \in Hooks :
              CalledBack(HostStateRead(World, k, g, read, hook))

\* An init hook that answered later calls back, or settles its promise
InitHookCb ==
    \E k \in Names, g \in Gens :
        /\ inst[k][g].pc = "hook"
        /\ \E outcome \in {"ok", "fail"} :
              CalledBack(HookDone(World, k, g, outcome))

\* initPlugin derives the host namespace from its pluginNamespace and from
\* common.name and common.host of the parent configuration
DeriveCall ==
    /\ ~derive.done
    /\ derive' =
           [derive EXCEPT
               !.out = DeriveHostNamespace(
                           AdapterNamespace(derive.adapter, derive.instance),
                           derive.name, derive.host),
               !.done = TRUE]
    /\ UNCHANGED <<version, scope, parentConfig, faults, plugins, inst, states,
                   objects, call, ret>>

\* The host process is started again over the same store: a new handler is
\* constructed, the plugins are registered with the configuration of that start
\* and bound to the store.
Restart ==
    /\ ret = NoRet
    /\ call.n > 0 /\ ~call.active
    /\ call.boot < MaxRestarts
    /\ NoChainPending
    /\ \E c \in {"undef", "false", "true"} :
          plugins' = [k \in Names |->
                         IF Registered(World, k)
                         THEN [registered |-> TRUE, config |-> c, instance |-> "cur"]
                         ELSE NoSlot]
    /\ inst' = [k \in Names |-> [g \in Gens |->
                   IF Registered(World, k) /\ g = "cur"
                   THEN [NewInstance EXCEPT !.bound = TRUE]
                   ELSE NoInstance]]
    /\ call' = [NoCall EXCEPT !.boot = call.boot + 1]
    /\ UNCHANGED <<version, scope, parentConfig, faults, states, objects, derive, ret>>

\* ------------------------------------------------------ specifications

ParentConfigs ==
    {[host |-> FALSE, match |-> FALSE], [host |-> TRUE, match |-> TRUE],
     [host |-> TRUE, match |-> FALSE]}

Namespaces == {PluginNamespace(k) : k \in Names} \cup {<<"host", k>> : k \in Names}

\* A handler of an adapter is constructed over an empty store
Init ==
    /\ version \in {"callback", "promise"}
    /\ scope = "adapter"
    /\ parentConfig = [host |-> TRUE, match |-> TRUE]
    /\ faults = FALSE
    /\ plugins = [k \in Names |-> NoSlot]
    /\ inst = [k \in Names |-> [g \in Gens |-> NoInstance]]
    /\ states = [id \in Namespaces |-> NoState]
    /\ objects = [id \in ObjectIds |-> "absent"]
    /\ call = NoCall
    /\ derive = NoDerive
    /\ ret = NoRet

Next ==
    \/ Return
    \/ AddPluginsCall
    \/ SetDatabaseCall
    \/ InitPluginsCall
    \/ DestroyCall
    \/ DestroyAllCall
    \/ ExtendFolderCb
    \/ ExtendStateCb
    \/ GetStateCb
    \/ GetHostStateCb
    \/ InitHookCb

Spec == Init /\ [][Next]_vars

\* One registered, bound plugin over a store that holds any enabled states, in
\* any scope, under any parent configuration, with and without read faults
StoredStates == {[val |-> v, ack |-> FALSE, from |-> External] : v \in Vals}

InitResolver ==
    /\ version \in {"callback", "promise"}
    /\ scope \in {"adapter", "controller"}
    /\ parentConfig \in ParentConfigs
    /\ faults \in BOOLEAN
    /\ \E c \in {"undef", "false", "true"} :
          plugins = [k \in Names |->
                        IF k = 1
                        THEN [registered |-> TRUE, config |-> c, instance |-> "cur"]
                        ELSE NoSlot]
    /\ inst = [k \in Names |-> [g \in Gens |->
                  IF k = 1 /\ g = "cur" THEN [NewInstance EXCEPT !.bound = TRUE]
                  ELSE NoInstance]]
    /\ \E own \in StoredStates, host \in StoredStates :
          states = [id \in Namespaces |->
                       IF id = PluginNamespace(1) THEN own
                       ELSE IF id = <<"host", 1>> THEN host
                       ELSE NoState]
    /\ objects = [id \in ObjectIds |-> "absent"]
    /\ call = NoCall
    /\ derive = NoDerive
    /\ ret = NoRet

NextResolver ==
    \/ Return
    \/ InitPluginsCall
    \/ ExtendFolderCb
    \/ ExtendStateCb
    \/ GetStateCb
    \/ GetHostStateCb
    \/ InitHookCb

SpecResolver == InitResolver /\ [][NextResolver]_vars

\* Direct calls on the instances the handler constructed: the persistence
\* accessors and setActive, before and after setDatabase
NextDirect ==
    \/ Return
    \/ AddPluginsCall
    \/ SetDatabaseCall
    \/ AccessorCall
    \/ SetActiveCall

SpecDirect == Init /\ [][NextDirect]_vars

\* The query accessors of the handler over the registries that registration,
\* setActive and destroy produce
NextQueries ==
    \/ Return
    \/ AddPluginsCall
    \/ SetDatabaseCall
    \/ SetActiveCall
    \/ DestroyAllCall
    \/ QueryCall

SpecQueries == Init /\ [][NextQueries]_vars

\* Registration, binding and initPlugins with a store whose every call calls
\* back in the end and init hooks that answer in the end: each pending callback
\* is taken at some time, and the host takes each return.
NextLive ==
    \/ Return
    \/ AddPluginsCall
    \/ SetDatabaseCall
    \/ InitPluginsCall
    \/ ExtendFolderCb
    \/ ExtendStateCb
    \/ GetStateCb
    \/ GetHostStateCb
    \/ InitHookCb

SpecLive ==
    /\ Init
    /\ [][NextLive]_vars
    /\ WF_vars(Return)
    /\ WF_vars(ExtendFolderCb)
    /\ WF_vars(ExtendStateCb)
    /\ WF_vars(GetStateCb)
    /\ WF_vars(GetHostStateCb)
    /\ WF_vars(InitHookCb)

\* A plugin of any adapter instance under a parent configuration with any
\* common.name and common.host
InitNamespace ==
    /\ version = "callback"
    /\ scope = "adapter"
    /\ parentConfig = [host |-> TRUE, match |-> TRUE]
    /\ faults = FALSE
    /\ plugins = [k \in Names |-> NoSlot]
    /\ inst = [k \in Names |-> [g \in Gens |-> NoInstance]]
    /\ states = [id \in Namespaces |-> NoState]
    /\ objects = [id \in ObjectIds |-> "absent"]
    /\ call = NoCall
    /\ derive \in {[NoDerive EXCEPT !.adapter = a, !.instance = n,
                                    !.name = p, !.host = h] :
                      a \in AdapterNames, n \in InstanceNumbers,
                      p \in ParentNames, h \in HostNames}
    /\ ret = NoRet

NextNamespace == DeriveCall

SpecNamespace == InitNamespace /\ [][NextNamespace]_vars

\* The resolver over the stores that earlier runs of the host left behind
NextRestart ==
    \/ Return
    \/ InitPluginsCall
    \/ DestroyCall
    \/ ExtendFolderCb
    \/ ExtendStateCb
    \/ GetStateCb
    \/ GetHostStateCb
    \/ InitHookCb
    \/ Restart

SpecRestart == InitResolver /\ [][NextRestart]_vars

\* ------------------------------------------------------------- claims

\* C1: once initPlugins, called over slots that all hold live, bound instances,
\* has signalled completion, every slot whose init hook succeeded (and that the
\* host has not destroyed) still holds its instance, which is active, and no slot
\* whose init hook failed or threw still holds its instance.
C1_FailureIsolation ==
    (call.signals > 0 /\ call.pre) =>
        \A k \in Names :
            (call.snap[k] = "live" /\ inst[k]["cur"].tried = call.n) =>
                /\ (inst[k]["cur"].result = "ok" /\ inst[k]["cur"].evicted # "destroy")
                       => (IsLive(World, k) /\ inst[k]["cur"].isActive)
                /\ inst[k]["cur"].result \in {"fail", "throw"} => ~IsLive(World, k)

\* C2: when initPlugins has signalled completion, instance.initPlugin has been
\* called in this call on every slot that held an instance when initPlugins was
\* called and still holds it.
C2_NoShortCircuit ==
    call.signals > 0 =>
        \A k \in Names : SnapLive(World, k) => inst[k]["cur"].tried = call.n

\* C3: initPlugins signals completion at most once, and never while the
\* initialization of a slot with a live instance is unattempted or pending.
C3_CompletesOnce == call.signals <= 1 /\ ~call.early

\* C4: whenever the plugin's own enabled state was read with a boolean value b,
\* the resolution yields activate = b, whatever the scope, the host's enabled
\* state and the configuration's enabled value.
C4_OwnFlagFirst ==
    \A k \in Names, g \in Gens :
        (/\ inst[k][g].ownRead \in {"true", "false"}
         /\ inst[k][g].activate # "none")
            => inst[k][g].activate = inst[k][g].ownRead

C4_Witness ==
    \E k \in Names, g \in Gens :
        /\ inst[k][g].ownRead = "false"
        /\ inst[k][g].activate = "false"
        /\ inst[k][g].cfg = "undef"
        /\ UseHost /\ parentConfig.match
        /\ states[HostNamespace(k)].val = "true"

\* C5: in adapter scope, when the plugin has no enabled state of its own and the
\* host's enabled state was read as false, the resolution yields activate =
\* false and the plugin's own enabled state is still not written.
C5_HostFallbackReadOnly ==
    \A k \in Names, g \in Gens :
        (/\ scope = "adapter" /\ parentConfig.match
         /\ inst[k][g].ownRead = "absent"
         /\ inst[k][g].hostRead = "false"
         /\ inst[k][g].activate # "none")
            => /\ inst[k][g].activate = "false"
               /\ states[PluginNamespace(k)] = NoState

\* C6: whenever the plugin has no enabled state of its own and no boolean host
\* enabled state was read, the resolution yields activate = true for a
\* configuration whose enabled is undefined and activate = false for one whose
\* enabled is false.
C6_ResolverDefault ==
    \A k \in Names, g \in Gens :
        (/\ inst[k][g].ownRead = "absent"
         /\ inst[k][g].hostRead \notin {"true", "false"}
         /\ inst[k][g].activate # "none")
            => /\ inst[k][g].cfg = "undef"
                   => inst[k][g].activate = "true"
               /\ inst[k][g].cfg = "false"
                   => inst[k][g].activate = "false"

C6_Witness ==
    \E k \in Names, g \in Gens :
        /\ inst[k][g].ownRead = "absent"
        /\ inst[k][g].hostRead = "absent"
        /\ inst[k][g].cfg = "undef"
        /\ inst[k][g].activate = "true"

\* C7: the step in which the init hook of an instance reports success leaves
\* the instance with isActive true and the plugin's own enabled state true,
\* written with ack = true and from = the plugin's namespace.
C7_ActiveAfterSuccess ==
    [][\A k \in Names, g \in Gens :
          (inst[k][g].result # "ok" /\ inst'[k][g].result = "ok")
              => /\ inst'[k][g].isActive
                 /\ states'[PluginNamespace(k)] =
                        [val |-> "true", ack |-> TRUE, from |-> PluginNamespace(k)]]_vars

C7_Witness ==
    \E k \in Names, g \in Gens :
        /\ inst[k][g].bound
        /\ inst[k][g].activate = "true"
        /\ inst[k][g].result = "ok"
        /\ inst[k][g].isActive
        /\ states[PluginNamespace(k)].val = "true"

\* C8: the step in which the init hook of an instance fails or throws leaves
\* the instance with isActive false, the plugin's own enabled state false, and
\* the handler's slot without instance.
C8_EvictedAfterFailure ==
    [][\A k \in Names, g \in Gens :
          (/\ inst[k][g].result \notin {"fail", "throw"}
           /\ inst'[k][g].result \in {"fail", "throw"})
              => /\ ~inst'[k][g].isActive
                 /\ states'[PluginNamespace(k)].val = "false"
                 /\ plugins'[k].instance = "none"]_vars

\* C9 as stated: an addPlugins call that names an already registered name
\* leaves the slot of that name, its config and its instance as they were.
C9_RegisteredUntouched ==
    [][\A k \in Names :
          (ret'.op = "addPlugins" /\ k \in ret'.names /\ Registered(World, k))
              => (plugins'[k] = plugins[k] /\ inst'[k] = inst[k])]_vars

\* C9: an addPlugins call that names a name whose slot holds a live instance
\* leaves the slot of that name, its config and its instance as they were, and
\* constructs no second instance.
C9_InstantiatedUntouched ==
    [][\A k \in Names :
          (ret'.op = "addPlugins" /\ k \in ret'.names /\ IsLive(World, k))
              => (plugins'[k] = plugins[k] /\ inst'[k] = inst[k])]_vars

C9_Witness ==
    /\ ret.op = "addPlugins"
    /\ \E k \in ret.names :
          /\ IsLive(World, k)
          /\ inst[k]["cur"].bound
          /\ plugins[k].config = "true"

\* C10: destroy(name, false) on a slot that holds an instance whose destroy()
\* returns false changes no slot, no instance (isActive included) and no state
\* of the store, and returns false.
C10_RefusedDestroy ==
    [][\A k \in Names :
          (/\ ret'.op = "destroy" /\ k \in ret'.names
           /\ ~ret'.force /\ ~ret'.hook
           /\ IsLive(World, k))
              => /\ plugins' = plugins
                 /\ inst' = inst
                 /\ states' = states
                 /\ ret'.val = "false"]_vars

C10_Witness ==
    /\ ret.op = "destroy" /\ ~ret.force /\ ~ret.hook
    /\ ret.val = "false"
    /\ \E k \in ret.names :
          /\ IsLive(World, k)
          /\ inst[k]["cur"].isActive
          /\ states[PluginNamespace(k)].val = "true"

\* C11: destroy(name, true) on a registered name, whatever the plugin's
\* destroy() returns, leaves the slot without instance and returns true.
C11_ForcedDestroy ==
    [][\A k \in Names :
          (/\ ret'.op = "destroy" /\ k \in ret'.names
           /\ ret'.force
           /\ Registered(World, k))
              => /\ plugins'[k].instance = "none"
                 /\ ret'.val = "true"]_vars

C11_Witness ==
    /\ ret.op = "destroy" /\ ret.force /\ ~ret.hook
    /\ ret.val = "true"
    /\ \E k \in ret.names :
          /\ ~IsLive(World, k)
          /\ inst[k]["cur"].evicted = "destroy"
          /\ inst[k]["cur"].isActive

\* C12: a call of getState, setState, getObject, setObject or extendObject on
\* an instance on which setDatabase was not called throws, and changes neither
\* the states DB nor the objects DB.
C12_AccessorBeforeBind ==
    [][\A k \in Names :
          (/\ ret'.op \in Accessors /\ k \in ret'.names
           /\ ~inst[k]["cur"].bound)
              => /\ ret'.val = "throw"
                 /\ states' = states
                 /\ objects' = objects]_vars

C12_Witness ==
    /\ ret.op = "setObject"
    /\ ret.val = "throw"
    /\ \E k \in ret.names : IsLive(World, k) /\ ~inst[k]["cur"].bound

\* C13: a call of setActive that changes the instance's isActive, on a bound or
\* an unbound instance, leaves the value stored at the plugin's enabled state
\* equal to the instance's isActive.
C13_FlagsAgree ==
    [][\A k \in Names :
          (/\ ret'.op = "setActive" /\ k \in ret'.names
           /\ inst'[k]["cur"].isActive # inst[k]["cur"].isActive)
              => states'[PluginNamespace(k)].val = Bool(inst'[k]["cur"].isActive)]_vars

\* C14: a step of registration, setDatabase, the resolver, initPlugins or destroy
\* changes the plugin's enabled state only where the code calls setActive (the
\* end of _initialize, or a destroy that is not forced), and then to what
\* setActive writes for the instance's new isActive.
C14_OnlySetActiveWrites ==
    [][\A k \in Names :
          states'[PluginNamespace(k)] # states[PluginNamespace(k)]
              => \E g \in Gens :
                    /\ states'[PluginNamespace(k)] =
                           [val |-> Bool(inst'[k][g].isActive), ack |-> TRUE,
                            from |-> PluginNamespace(k)]
                    /\ \/ /\ inst'[k][g].result # inst[k][g].result
                          /\ inst'[k][g].result \in {"ok", "fail", "throw", "off"}
                       \/ /\ ret'.op = "destroy" /\ k \in ret'.names
                          /\ ~ret'.force /\ ret'.hook]_vars

C14_Witness ==
    \E k \in Names :
        /\ ret.op = "destroy" /\ k \in ret.names /\ ~ret.force /\ ret.hook
        /\ inst[k]["cur"].result = "ok"
        /\ ~inst[k]["cur"].isActive
        /\ objects[EnabledId(k)] = "state"
        /\ states[PluginNamespace(k)] =
               [val |-> "false", ack |-> TRUE, from |-> PluginNamespace(k)]

\* C15: no step sets isActive of an instance to true, or writes the enabled
\* state true for it, after the instance was destroyed and evicted by destroy
\* or destroyAll.
C15_DestroyTerminal ==
    [][\A k \in Names, g \in Gens :
          (/\ inst[k][g].evicted = "destroy"
           /\ inst[k][g].pc \in Pending
           /\ inst'[k][g].pc = "idle")
              => /\ ~inst'[k][g].isActive
                 /\ states'[PluginNamespace(k)].val # "true"]_vars

\* C16: an addPlugins call returns without throwing whatever fails to resolve,
\* to load or to construct, leaves no instance in the slot of a name that
\* failed, and registers the other names of the call: at most the one name
\* whose module fails is left unregistered.
C16_RegistrationNotFatal ==
    ret.op = "addPlugins" =>
        /\ ret.val # "throw"
        /\ Cardinality({k \in ret.names : ~Registered(World, k)}) <= 1

\* C17: when the read of the plugin's own enabled state failed, the host's
\* enabled state is consulted where the scope and the parent configuration ask
\* for it, and activate is the boolean host flag or else the default of the
\* configuration; when the read of the host's enabled state failed, activate is
\* the default of the configuration; and the outcome of an init hook that was
\* skipped or that answered has been reported to the handler.
C17_ReadFaultsResolve ==
    \A k \in Names, g \in Gens :
        (/\ inst[k][g].activate # "none"
         /\ inst[k][g].ownRead = "error" \/ inst[k][g].hostRead = "error")
            => /\ inst[k][g].ownRead = "error"
                   => ((scope = "adapter" /\ parentConfig.host)
                          <=> inst[k][g].hostRead # "none")
               /\ inst[k][g].activate =
                      IF inst[k][g].hostRead \in {"true", "false"}
                      THEN inst[k][g].hostRead
                      ELSE Bool(inst[k][g].cfg \in {"undef", "true"})
               /\ inst[k][g].result \in {"ok", "fail", "off"} => call.signals > 0

C17_Witness ==
    \E k \in Names, g \in Gens :
        /\ inst[k][g].ownRead = "error"
        /\ inst[k][g].hostRead = "error"
        /\ inst[k][g].cfg = "undef"
        /\ inst[k][g].activate = "true"
        /\ inst[k][g].result = "ok"
        /\ call.signals > 0

\* C18: when the resolver yields activate = false, the init hook is not invoked
\* (the instance waits for no hook and its outcome is "not activated", never a
\* hook's), isActive is false, the enabled state is stored false by setActive,
\* and the outcome has been reported to the handler.
C18_NotActivated ==
    \A k \in Names, g \in Gens :
        inst[k][g].activate = "false"
            => /\ inst[k][g].pc = "idle"
               /\ inst[k][g].result = "off"
               /\ ~inst[k][g].isActive
               /\ states[PluginNamespace(k)] =
                      [val |-> "false", ack |-> TRUE, from |-> PluginNamespace(k)]
               /\ call.signals > 0

C18_Witness ==
    \E k \in Names, g \in Gens :
        /\ inst[k][g].cfg = "false"
        /\ inst[k][g].ownRead = "absent"
        /\ inst[k][g].activate = "false"
        /\ inst[k][g].result = "off"
        /\ states[PluginNamespace(k)].val = "false"

\* C19: in the callback handler, the step in which the initialization of a
\* plugin reports an error or initSuccessful = false (a failed init hook, a
\* missing configuration, or a plugin that was not activated) leaves the slot
\* of the plugin without instance.
C19_DiscardRule ==
    [][\A k \in Names, g \in Gens :
          (/\ version = "callback"
           /\ inst'[k][g].result # inst[k][g].result
           /\ inst'[k][g].result \in {"fail", "off", "nocfg"})
              => plugins'[k].instance = "none"]_vars

C19_Witness ==
    \E k \in Names :
        /\ version = "callback"
        /\ inst[k]["cur"].activate = "false"
        /\ inst[k]["cur"].result = "off"
        /\ inst[k]["cur"].evicted = "init"
        /\ ~IsLive(World, k)

\* C20: a call of a query accessor with any name changes neither the registry,
\* nor an instance, nor the store, does not throw, and for a name that was
\* never registered returns null (getPluginInstance, getPluginConfig) or false
\* (pluginExists, isPluginInitialized / isPluginInstantiated, isPluginActive).
C20_QueriesTotalAndPure ==
    [][ret'.op \in Queries
          => /\ plugins' = plugins /\ inst' = inst
             /\ states' = states /\ objects' = objects
             /\ ret'.val # "throw"
             /\ (\A k \in ret'.names : ~Registered(World, k))
                    => ret'.val \in {"null", "false"}]_vars

\* C21: at no time are the initializations of two plugins in progress together:
\* at most one instance waits for the store or for its init hook, and when the
\* init hook of one instance is awaited no other instance has been started.
C21_OneAtATime ==
    \A k \in Names, j \in Names, g \in Gens, h \in Gens :
        (inst[k][g].pc \in Pending /\ inst[j][h].pc \in Pending) => k = j

\* C22: when the store calls back every call and every init hook reports an
\* outcome (an answer or a throw), an initPlugins that was called over slots
\* that all hold live, bound instances eventually signals completion.
C22_EventuallyCompletes == (call.n > 0 /\ call.pre) ~> (call.signals > 0)

\* C23: destroy(name, false) on a slot whose instance's destroy() returns true
\* leaves the slot without instance and the plugin's enabled state false and
\* returns true; destroy(name, true) changes no state of the store; and a
\* destroy returns true exactly when it removed an instance from the slot.
C23_DestroyPersistsAndReports ==
    [][\A k \in Names :
          (ret'.op = "destroy" /\ k \in ret'.names /\ Registered(World, k))
              => /\ (~ret'.force /\ ret'.hook /\ IsLive(World, k))
                        => /\ plugins'[k].instance = "none"
                           /\ states'[PluginNamespace(k)].val = "false"
                           /\ ret'.val = "true"
                 /\ ret'.force => states' = states
                 /\ ret'.val = "true"
                        <=> (IsLive(World, k) /\ plugins'[k].instance = "none")]_vars

\* C24: a destroy() of the callback handler or a destroyAll() of the promise
\* handler, whatever the plugins' destroy() return, leaves every registered
\* slot registered, with its config and without instance, and does not throw.
C24_DestroyAllEvicts ==
    [][ret'.op = "destroyAll"
          => /\ ret'.val # "throw"
             /\ \A k \in Names :
                   /\ plugins'[k].instance = "none"
                   /\ plugins'[k].registered = plugins[k].registered
                   /\ plugins'[k].config = plugins[k].config]_vars

C24_Witness ==
    /\ version = "promise"
    /\ ret.op = "destroyAll" /\ ~ret.hook
    /\ \A k \in Names :
          /\ Registered(World, k) /\ ~IsLive(World, k)
          /\ inst[k]["cur"].evicted = "destroy"
          /\ plugins[k].config # "missing"

\* C25: for a plugin in controller scope, or under a parent configuration
\* without common.host, initPlugin never reads a state of the host namespace,
\* and activate is a function of what the read of the plugin's own enabled state
\* gave and of the configuration's enabled alone: the own value where it is
\* usable, else true for enabled undefined or true and false for enabled false.
C25_HostOnlyInAdapterScope ==
    \A k \in Names, g \in Gens :
        ~(scope = "adapter" /\ parentConfig.host)
            => /\ inst[k][g].pc # "getHost"
               /\ inst[k][g].hostRead = "none"
               /\ inst[k][g].activate # "none"
                     => inst[k][g].activate =
                            IF inst[k][g].ownRead \in {"true", "string"} THEN "true"
                            ELSE IF inst[k][g].ownRead \in {"false", "zero"} THEN "false"
                            ELSE Bool(inst[k][g].cfg \in {"undef", "true"})

C25_Witness ==
    \E k \in Names, g \in Gens :
        /\ scope = "controller" /\ parentConfig.host /\ parentConfig.match
        /\ states[<<"host", k>>].val = "false"
        /\ inst[k][g].ownRead = "absent"
        /\ inst[k][g].hostRead = "none"
        /\ inst[k][g].cfg = "undef"
        /\ inst[k][g].activate = "true"

\* C26: for the namespace of a plugin of an instance of the adapter that is
\* common.name of the parent configuration, the derived host namespace is
\* system.host.<host>.plugins.<plugin>; for the namespace of a plugin of an
\* adapter with another name the pattern does not match, and the derived
\* namespace is the plugin's namespace unchanged.
C26_HostNamespaceDerivation ==
    derive.done =>
        derive.out =
            IF derive.adapter = derive.name
            THEN SystemHost \o derive.host \o <<".">> \o PluginsTail
            ELSE AdapterNamespace(derive.adapter, derive.instance)

\* C27 as stated: a resolution that reads the plugin's own enabled state while
\* it is the false that setActive wrote yields activate = false at once and does
\* not invoke the init hook, whatever the configuration and the host's enabled
\* state are.
C27_StickyDeactivation ==
    [][\A k \in Names, g \in Gens :
          (/\ states[PluginNamespace(k)] = EnabledState(k, FALSE)
           /\ inst[k][g].pc = "getState"
           /\ inst'[k][g].pc # "getState")
              => /\ inst'[k][g].activate = "false"
                 /\ inst'[k][g].result = "off"
                 /\ inst'[k][g].pc = "idle"]_vars

\* C27: a resolution that reads the plugin's own enabled state while it is the
\* false that setActive wrote, and whose read succeeds, yields activate = false
\* at once and does not invoke the init hook, whatever the configuration and
\* the host's enabled state are.
C27_StickyWhenRead ==
    [][\A k \in Names, g \in Gens :
          (/\ states[PluginNamespace(k)] = EnabledState(k, FALSE)
           /\ inst[k][g].pc = "getState"
           /\ inst'[k][g].pc # "getState"
           /\ inst'[k][g].ownRead # "error")
              => /\ inst'[k][g].activate = "false"
                 /\ inst'[k][g].result = "off"
                 /\ inst'[k][g].pc = "idle"]_vars

C27_Witness ==
    \E k \in Names :
        /\ ~faults /\ call.boot = 1
        /\ scope = "adapter" /\ parentConfig.host /\ parentConfig.match
        /\ states[<<"host", k>>].val = "true"
        /\ inst[k]["cur"].cfg = "true"
        /\ inst[k]["cur"].ownRead = "false"
        /\ inst[k]["cur"].hostRead = "none"
        /\ inst[k]["cur"].activate = "false"
        /\ inst[k]["cur"].result = "off"
        /\ states[PluginNamespace(k)] = EnabledState(k, FALSE)

\* C28: no slot is reported active in the initial state, and a step after which
\* isPluginActive(name) holds and before which it did not is the step in which
\* the init hook of the slot's live instance reports success, after the
\* resolver yielded activate = true for it.
C28_ActiveOnlyAfterSuccess ==
    [][\A k \in Names :
          (/\ plugins'[k].instance # "none" /\ inst'[k]["cur"].isActive
           /\ ~(plugins[k].instance # "none" /\ inst[k]["cur"].isActive))
              => /\ inst'[k]["cur"].activate = "true"
                 /\ inst'[k]["cur"].result = "ok"
                 /\ inst[k]["cur"].result # "ok"
                 /\ inst'[k]["cur"].pc = "idle"]_vars

C28_Witness ==
    \E k \in Names :
        /\ version = "promise"
        /\ Lookup(World, [kind |-> "name", k |-> k]).isActive
        /\ inst[k]["cur"].activate = "true"
        /\ inst[k]["cur"].result = "ok"
        /\ call.signals > 0

\* C29: when destroy or destroyAll has removed the instance of a slot while its
\* initialization was waiting for the store or for its init hook, and the slot
\* is still without instance, the step in which that initialization completes
\* with the hook skipped or answering (success or failure) raises no exception
\* and leaves the slot without instance.
C29_DestroyRaceSafe ==
    [][\A k \in Names, g \in Gens :
          (/\ inst[k][g].evicted = "destroy"
           /\ plugins[k].instance = "none"
           /\ inst[k][g].pc \in Pending
           /\ inst'[k][g].pc = "idle"
           /\ inst'[k][g].result \in {"ok", "fail", "off"})
              => /\ call'.raised = call.raised
                 /\ plugins'[k].instance = "none"]_vars

====
